---- MODULE Spec2Model ----
(***************************************************************************)
(* Model of the SplashScreen animation engine of Cerebra-AI                *)
(* (Frontend/src/components/SplashScreen, hosted by Frontend/src/App.tsx), *)
(* and of the chat page App shows after it (Frontend/src/pages/Index.tsx   *)
(* with Frontend/src/components/ChatHistorySidebar.tsx).                   *)
(*                                                                         *)
(* Time is in milliseconds.  progress is kept as the numerator of          *)
(* elapsed/totalDuration, i.e. the real progress is progress/totalDuration *)
(* and "progress = 1.0" is progress = totalDuration.  The fade multiplier  *)
(* is kept as the numerator over fadeOutDuration in the same way.          *)
(***************************************************************************)
EXTENDS Integers, FiniteSets, Sequences, TLC

(* ---------------------------- program constants ------------------------ *)
totalDuration == 4500
fadeOutDuration == 1200
holdDuration == 800

\* const letters = ['C', 'E', 'R', 'E', 'B', 'R', 'A']
LetterCount == 7

\* finalX: index * -8
Spacing == -8

\* useRef<number>() starts as undefined; modelled by a value no timestamp or id takes
NoTime == -1
NoFrame == 0

(* ------------------------------- bounds -------------------------------- *)
\* the clock stops advancing here
MaxTime == 7700
\* the frame loop stops re-requesting once this many frame ids were handed out
MaxFrames == 5
\* how many times the host may call the effect cleanup again after disposal
MaxDisposeCalls == 2
\* amounts by which the clock advances between two events
Steps == {400, 1200, 4500}
\* Date.now() - performance.now(): 0 when the frame timestamps are Date-based,
\* large when they are DOMHighResTimeStamps counted from the page's time origin
TimeOrigins == {0, 1000000}
\* values the Math.sin and Math.cos calls of one render may return
Waves ==
    {[sinPos |-> <<1, 1>>, cosPos |-> <<-1, 1>>, sinGlitch |-> <<1, 1>>, cosGlitch |-> <<-1, 2>>],
     [sinPos |-> <<-1, 2>>, cosPos |-> <<0, 1>>, sinGlitch |-> <<-1, 1>>, cosGlitch |-> <<1, 1>>]}
\* the indices getLetterStyle is called with: the letters, and one index on each side
RenderIndices == {-1, 0, 3, 6, 7}
\* the clock steps and the clock's end of the specification that renders the
\* Entering phase
VisualSteps == {450, 1350, 4500}
VisualMaxTime == 5400
\* outcomes of the Math.random() draws of one session, within the ranges of
\* lines 267-279
SeedDraws ==
    {[startX |-> -600, startY |-> 400, startRotation |-> 360, startScale |-> 100,
      midX |-> 200, midY |-> -150, pixelIntensity |-> 200, glitchOffset |-> -10],
     [startX |-> 300, startY |-> -120, startRotation |-> -45, startScale |-> 399,
      midX |-> -80, midY |-> 60, pixelIntensity |-> 999, glitchOffset |-> 7]}

\* the host passes at most this many different onComplete functions
MaxIdentities == 2
\* the easing functions are evaluated at the multiples of 1/EaseSteps in [0, 1]
EaseSteps == 20
\* the clock steps and the clock's end of the specification with fairness
LiveSteps == {1500, 4500}
LiveMaxTime == 18000
\* the backend hands out the session ids 1..MaxSessions
MaxSessions == 2
\* the user starts at most this many fetch calls (send, select, delete, refresh)
MaxCalls == 4

VARIABLES
    now,            \* the clock of requestAnimationFrame timestamps and timers
    timeOrigin,     \* Date.now() = now + timeOrigin
    showSplash,     \* App: useState(true)
    mounted,        \* the SplashScreen is mounted
    progress,       \* useState(0), numerator over totalDuration
    fadeOut,        \* useState(false)
    startTimeRef,   \* useRef<number>()
    animationRef,   \* useRef<number>()
    rafPending,     \* frame requests not yet run or cancelled: [id, fo]
    nextRafId,      \* the id the next requestAnimationFrame returns
    timers,         \* setTimeout callbacks not yet run: [id, kind, due]
    nextTimerId,    \* the id the next setTimeout returns
    effectPending,  \* the deps [onComplete, fadeOut] changed, the effect has not re-run yet
    completeCount,  \* number of invocations of onComplete
    fullAt,         \* history: when progress first became 1.0
    fadeAt,         \* history: when the hold timer callback first ran
    disposedIn,     \* history: the phase in which the host disposed
    disposeCalls,   \* history: number of cleanup calls after the disposal
    firstTickAt,    \* history: the timestamp of the first tick
    letterData,     \* useState(() => letters.map(...)): one seed per letter
    style,          \* what the last call of getLetterStyle returned
    onCompleteId,   \* the identity of the onComplete function the host passes
    easeArgs,       \* the two arguments the easing functions are called with
    easeOut,        \* what the easing functions returned for them
    messages,       \* Index: useState([WELCOME_MESSAGE])
    isProcessing,   \* Index: useState(false)
    currentTool,    \* Index: useState<string | undefined>()
    sessionId,      \* Index: useState<string | null>(null)
    calls,          \* fetch calls whose handler is suspended at its await
    nextCallId,     \* number of the next fetch call
    backend,        \* the backend's stored history of each session
    sessions,       \* ChatHistorySidebar: useState<Session[]>([]), as the set of ids
    shown,          \* history: the chat whose transcript messages holds
    lastCall        \* history: the fetch call whose handler ran last

vars == <<now, timeOrigin, showSplash, mounted, progress, fadeOut, startTimeRef,
          animationRef, rafPending, nextRafId, timers, nextTimerId,
          effectPending, completeCount, fullAt, fadeAt, disposedIn, disposeCalls,
          firstTickAt, letterData, style, onCompleteId, easeArgs, easeOut,
          messages, isProcessing, currentTool, sessionId, calls, nextCallId,
          backend, sessions, shown, lastCall>>

\* the state of the animation engine and its host
splashVars == <<now, timeOrigin, showSplash, mounted, progress, fadeOut, startTimeRef,
                animationRef, rafPending, nextRafId, timers, nextTimerId,
                effectPending, completeCount, fullAt, fadeAt, disposedIn,
                disposeCalls, firstTickAt, letterData, style, onCompleteId>>

\* the state of one evaluation of the easing functions
easeVars == <<easeArgs, easeOut>>

\* the state of the chat page, its fetch calls and the backend
chatVars == <<messages, isProcessing, currentTool, sessionId, calls, nextCallId,
              backend, sessions, shown, lastCall>>

Min(a, b) == IF a < b THEN a ELSE b
Max(a, b) == IF a > b THEN a ELSE b

(* ------------------------------ helpers -------------------------------- *)
\* !startTimeRef.current : undefined and 0 are both falsy
Falsy(x) == x = NoTime \/ x = 0

\* mutant: Math.min(..., 1) is missing
NewProgress_NoClamp(elapsed) == elapsed

\* mutant: the elapsed time wraps around instead of being clamped
NewProgress_Wrap(elapsed) == elapsed % totalDuration

\* Math.min(elapsed / totalDuration, 1), as a numerator over totalDuration
NewProgress(elapsed) == Min(elapsed, totalDuration)

\* mutant: the "&& !fadeOut" guard is missing
SchedulesHold_NoFadeGuard(newProgress, fo) == newProgress >= totalDuration

\* mutant: the "newProgress >= 1" guard is missing
SchedulesHold_NoProgressCheck(newProgress, fo) == ~fo

\* if (newProgress >= 1 && !fadeOut): the tick schedules the hold timer
SchedulesHold(newProgress, fo) == newProgress >= totalDuration /\ ~fo

\* mutant: the tick requests the next frame unconditionally
RequestsFrame_Always(newProgress, fo) == TRUE

\* mutant: the tick requests the next frame only while fading out
RequestsFrame_OnlyFading(newProgress, fo) == fo

\* if (newProgress < 1 || fadeOut): the tick requests the next frame
RequestsFrame(newProgress, fo) == newProgress < totalDuration \/ fo

\* mutant: the delay argument is dropped
SetTimeout_NoDelay(pending, kind, delay) ==
    pending \cup {[id |-> nextTimerId, kind |-> kind, due |-> now]}

\* setTimeout(callback, delay) called at the current instant
SetTimeout(pending, kind, delay) ==
    pending \cup {[id |-> nextTimerId, kind |-> kind, due |-> now + delay]}

\* Date.now()
DateNow == now + timeOrigin

\* cancelAnimationFrame(id)
CancelFrame(pending, id) == {r \in pending : r.id # id}

\* mutant: the cleanup cancels nothing
Cleanup_NoCancel(pending) == pending

\* mutant: the cleanup's test of animationRef.current is negated
Cleanup_Negated(pending) ==
    IF animationRef = NoFrame THEN CancelFrame(pending, animationRef) ELSE pending

\* the effect cleanup: if (animationRef.current) cancelAnimationFrame(animationRef.current)
Cleanup(pending) ==
    IF animationRef # NoFrame THEN CancelFrame(pending, animationRef) ELSE pending

\* the lifecycle phase of section 4.4, read off the component state
Phase ==
    IF ~mounted THEN "Disposed"
    ELSE IF completeCount > 0 THEN "Completed"
    ELSE IF fadeOut THEN "FadingOut"
    ELSE IF progress >= totalDuration THEN "HoldingComplete"
    ELSE "Entering"

\* mutant: the fade is counted from the end of the fade instead of its start
FadeFactor_LateStart ==
    Max(0, fadeOutDuration
           - (DateNow - (startTimeRef + totalDuration + holdDuration + fadeOutDuration)))

\* mutant: Math.max(0, ...) is missing
FadeFactor_NoClamp ==
    fadeOutDuration - (DateNow - (startTimeRef + totalDuration + holdDuration))

\* Math.max(0, 1 - (Date.now() - (startTimeRef.current + totalDuration + 800)) / fadeOutDuration)
\* as a numerator over fadeOutDuration
FadeFactor ==
    Max(0, fadeOutDuration - (DateNow - (startTimeRef + totalDuration + holdDuration)))

\* overallOpacity, numerator over fadeOutDuration
OverallOpacity == IF fadeOut THEN FadeFactor ELSE fadeOutDuration

(* ------------------------- number arithmetic --------------------------- *)
\* The numbers of getLetterStyle are modelled as exact fractions <<n, d>>,
\* d > 0, in lowest terms.
RECURSIVE GCD(_, _)
GCD(a, b) == IF b = 0 THEN a ELSE GCD(b, a % b)

Abs(a) == IF a < 0 THEN -a ELSE a

Rat(n, d) ==
    LET sn == IF d < 0 THEN -n ELSE n
        sd == Abs(d)
        g == GCD(Abs(sn), sd)
    IN  <<sn \div g, sd \div g>>

RInt(k) == <<k, 1>>
\* the least common denominator of a and b
Lcd(a, b) == (a[2] \div GCD(a[2], b[2])) * b[2]
\* the numerator of a over the denominator d, a multiple of its own
Over(a, d) == a[1] * (d \div a[2])
RAdd(a, b) == Rat(Over(a, Lcd(a, b)) + Over(b, Lcd(a, b)), Lcd(a, b))
RSub(a, b) == Rat(Over(a, Lcd(a, b)) - Over(b, Lcd(a, b)), Lcd(a, b))
RMul(a, b) ==
    LET g1 == GCD(Abs(a[1]), b[2])
        g2 == GCD(Abs(b[1]), a[2])
    IN  Rat((a[1] \div g1) * (b[1] \div g2), (a[2] \div g2) * (b[2] \div g1))
RDiv(a, b) == RMul(a, Rat(b[2], b[1]))
RLt(a, b) == Over(a, Lcd(a, b)) < Over(b, Lcd(a, b))
RLe(a, b) == Over(a, Lcd(a, b)) <= Over(b, Lcd(a, b))
RMin(a, b) == IF RLt(b, a) THEN b ELSE a
RMax(a, b) == IF RLt(a, b) THEN b ELSE a
RPow(a, k) == IF k = 3 THEN RMul(a, RMul(a, a)) ELSE RMul(RMul(a, a), RMul(a, a))

(* ---------------------------- getLetterStyle --------------------------- *)
\* progress as the number the render reads
ProgressValue == Rat(progress, totalDuration)

\* 1 - Math.pow(1 - t, 4)
easeOutQuart(t) == RSub(RInt(1), RPow(RSub(RInt(1), t), 4))

\* mutant: the second half is not divided by 2
easeInOutCubic_NoHalf(t) ==
    IF RLt(t, Rat(1, 2))
    THEN RMul(RInt(4), RPow(t, 3))
    ELSE RSub(RInt(1), RPow(RAdd(RMul(RInt(-2), t), RInt(2)), 3))

\* t < 0.5 ? 4 * t * t * t : 1 - Math.pow(-2 * t + 2, 3) / 2
easeInOutCubic(t) ==
    IF RLt(t, Rat(1, 2))
    THEN RMul(RInt(4), RPow(t, 3))
    ELSE RSub(RInt(1), RDiv(RPow(RAdd(RMul(RInt(-2), t), RInt(2)), 3), RInt(2)))

\* mutant: the two weights are swapped
Mix_Swapped(a, b, e) == RAdd(RMul(a, e), RMul(b, RSub(RInt(1), e)))

\* a * (1 - e) + b * e
Mix(a, b, e) == RAdd(RMul(a, RSub(RInt(1), e)), RMul(b, e))

\* getPosition(t) for the seed data; w.sinPos and w.cosPos stand for
\* Math.sin(t * Math.PI * 3 + index) and Math.cos(t * Math.PI * 2.5 + index)
getPosition(t, data, w) ==
    LET rotationEase == easeInOutCubic(t)
        scaleEase == easeInOutCubic(RMin(RMul(t, Rat(3, 2)), RInt(1)))
        first == RLt(t, Rat(3, 5))
        easedT == IF first
                  THEN easeOutQuart(RDiv(t, Rat(3, 5)))
                  ELSE easeInOutCubic(RDiv(RSub(t, Rat(3, 5)), Rat(2, 5)))
        rest == RSub(RInt(1), easedT)
    IN  [x |-> IF first
               THEN RAdd(Mix(RInt(data.startX), RInt(data.midX), easedT),
                         RMul(w.sinPos, RMul(rest, RInt(50))))
               ELSE Mix(RInt(data.midX), RInt(data.finalX), easedT),
         y |-> IF first
               THEN RAdd(Mix(RInt(data.startY), RInt(data.midY), easedT),
                         RMul(w.cosPos, RMul(rest, RInt(30))))
               ELSE Mix(RInt(data.midY), RInt(data.finalY), easedT),
         rotation |-> RMul(RInt(data.startRotation), RSub(RInt(1), rotationEase)),
         scale |-> Mix(Rat(data.startScale, 1000), RInt(1), scaleEase)]

\* Math.min(progress * 2.5, 1), times the fade out factor when fadeOut is set
LetterOpacity ==
    LET fadeIn == RMin(RMul(ProgressValue, Rat(5, 2)), RInt(1))
    IN  IF fadeOut THEN RMul(fadeIn, Rat(FadeFactor, fadeOutDuration)) ELSE fadeIn

\* mutant: Math.max(0, ...) is missing
GlowIntensity_NoClamp(t) == RDiv(RSub(t, Rat(4, 5)), Rat(1, 5))

\* Math.max(0, (progress - 0.8) / 0.2)
GlowIntensity(t) == RMax(RInt(0), RDiv(RSub(t, Rat(4, 5)), Rat(1, 5)))

\* mutant: the glitch window is tested against 0.6, the bound of the first path segment
Glitch_WideWindow(t, wave, offset, factor) ==
    IF RLt(t, Rat(3, 5))
    THEN RMul(RMul(RMul(wave, RInt(offset)), factor),
              RSub(RInt(1), RMul(t, Rat(5, 2))))
    ELSE RInt(0)

\* progress < 0.4 ? wave * glitchOffset * (1 - progress * 2.5) [* 0.5 for y] : 0
Glitch(t, wave, offset, factor) ==
    IF RLt(t, Rat(2, 5))
    THEN RMul(RMul(RMul(wave, RInt(offset)), factor),
              RSub(RInt(1), RMul(t, Rat(5, 2))))
    ELSE RInt(0)

\* mutant: the index is clamped into the array
LetterAt_Clamped(index) == letterData[Max(0, Min(index, LetterCount - 1))]

\* letterData[index]: undefined outside the array
LetterAt(index) ==
    IF index \in DOMAIN letterData THEN letterData[index] ELSE [undefined |-> TRUE]

\* getLetterStyle(index); w holds the values of the four Math.sin / Math.cos calls.
\* Reading a field of undefined throws a TypeError.
getLetterStyle(index, w) ==
    LET data == LetterAt(index)
        t == ProgressValue
    IN  IF "undefined" \in DOMAIN data
        THEN [rendered |-> TRUE, index |-> index, error |-> "TypeError"]
        ELSE LET pos == getPosition(t, data, w)
                 pixelationProgress == RMin(RMul(t, Rat(9, 5)), RInt(1))
             IN  [rendered |-> TRUE, index |-> index, error |-> "none",
                  t |-> t, w |-> w, data |-> data,
                  x |-> pos.x, y |-> pos.y,
                  rotation |-> pos.rotation, scale |-> pos.scale,
                  pixelSize |-> RMul(RMul(Rat(data.pixelIntensity, 1000),
                                          RSub(RInt(1), easeInOutCubic(pixelationProgress))),
                                     RInt(8)),
                  opacity |-> LetterOpacity,
                  fading |-> fadeOut,
                  glowIntensity |-> GlowIntensity(t),
                  glitchX |-> Glitch(t, w.sinGlitch, data.glitchOffset, RInt(1)),
                  glitchY |-> Glitch(t, w.cosGlitch, data.glitchOffset, Rat(1, 2))]

(* ------------------------------- seeds --------------------------------- *)
\* one element of letterData: the random draws c, and the final position that
\* depends on the index alone.  startScale and pixelIntensity are in
\* thousandths, the other fields in pixels and degrees.
MakeSeed(c, index) ==
    [startX |-> c.startX, startY |-> c.startY, startRotation |-> c.startRotation,
     startScale |-> c.startScale, midX |-> c.midX, midY |-> c.midY,
     finalX |-> index * Spacing, finalY |-> 0,
     pixelIntensity |-> c.pixelIntensity, glitchOffset |-> c.glitchOffset]

\* the seed vectors the model draws from: two outcomes of the Math.random() calls
LetterDataChoices ==
    {[index \in 0..(LetterCount - 1) |-> MakeSeed(c, index)] : c \in SeedDraws}

\* mutant: the seeds are drawn again on every render
KeepSeeds_Regenerate == letterData' \in LetterDataChoices

\* useState keeps the seeds of the first render across renders
KeepSeeds == letterData' = letterData

\* no call of getLetterStyle has returned yet
NotRendered == [rendered |-> FALSE]

(* ------------------------------- Init ---------------------------------- *)
\* SplashScreen and App as mounted
SplashInit ==
    /\ now = 0
    /\ timeOrigin \in TimeOrigins
    /\ showSplash = TRUE
    /\ mounted = TRUE
    /\ progress = 0
    /\ fadeOut = FALSE
    /\ startTimeRef = NoTime
    /\ animationRef = NoFrame
    /\ rafPending = {}
    /\ nextRafId = 1
    /\ timers = {}
    /\ nextTimerId = 1
    /\ effectPending = TRUE
    /\ completeCount = 0
    /\ fullAt = NoTime
    /\ fadeAt = NoTime
    /\ disposedIn = "none"
    /\ disposeCalls = 0
    /\ firstTickAt = NoTime
    /\ letterData \in LetterDataChoices
    /\ style = NotRendered
    /\ onCompleteId = 1

\* no evaluation of the easing functions is recorded
NoArgs == <<>>
NoResult == [evaluated |-> FALSE]

EaseIdle ==
    /\ easeArgs = NoArgs
    /\ easeOut = NoResult

\* sessionId === null, and the id no backend session has
NoSession == 0

\* const WELCOME_MESSAGE; a message is its type, the fetch call it belongs to
\* (0: none) and its content
WELCOME_MESSAGE == [type |-> "ai", call |-> 0, text |-> "welcome"]

\* the chat the page shows before any session is selected
FirstChat == [session |-> NoSession, since |-> 0]

\* the useState initial values of Index and ChatHistorySidebar; the page is
\* not mounted while the splash is shown, so no fetch call is under way
ChatIdle ==
    /\ messages = <<WELCOME_MESSAGE>>
    /\ isProcessing = FALSE
    /\ currentTool = "undefined"
    /\ sessionId = NoSession
    /\ calls = {}
    /\ nextCallId = 1
    /\ backend = [s \in 1..MaxSessions |-> [state |-> "free", history |-> <<>>]]
    /\ sessions = {}
    /\ shown = FirstChat
    /\ lastCall = [id |-> 0, kind |-> "none", ok |-> FALSE, notified |-> FALSE]

Init == SplashInit /\ EaseIdle /\ ChatIdle

(* ------------------------------ actions -------------------------------- *)
\* useEffect(..., [onComplete, fadeOut]): cleanup of the previous run, then
\* animationRef.current = requestAnimationFrame(animate)
RunEffect ==
    /\ mounted
    /\ effectPending
    /\ effectPending' = FALSE
    /\ rafPending' = Cleanup(rafPending) \cup {[id |-> nextRafId, fo |-> fadeOut]}
    /\ animationRef' = nextRafId
    /\ nextRafId' = nextRafId + 1
    /\ KeepSeeds
    /\ UNCHANGED <<onCompleteId, easeVars, chatVars>>
    /\ UNCHANGED <<style, firstTickAt>>
    /\ UNCHANGED <<now, timeOrigin, showSplash, mounted, progress, fadeOut,
                   startTimeRef, timers, nextTimerId, completeCount, fullAt,
                   fadeAt, disposedIn, disposeCalls>>

\* animate(currentTime), run for the frame request r with currentTime = now
Tick(r) ==
    LET start == IF Falsy(startTimeRef) THEN now ELSE startTimeRef
        newProgress == NewProgress(now - start)
        holds == SchedulesHold(newProgress, r.fo)
        again == RequestsFrame(newProgress, r.fo)
    IN  /\ r \in rafPending
        /\ again => nextRafId <= MaxFrames
        /\ startTimeRef' = start
        /\ progress' = IF mounted THEN newProgress ELSE progress
        /\ timers' = IF holds THEN SetTimeout(timers, "hold", holdDuration) ELSE timers
        /\ nextTimerId' = IF holds THEN nextTimerId + 1 ELSE nextTimerId
        /\ fullAt' = IF mounted /\ newProgress >= totalDuration /\ fullAt = NoTime
                     THEN now ELSE fullAt
        /\ IF again
           THEN /\ rafPending' = (rafPending \ {r}) \cup {[id |-> nextRafId, fo |-> r.fo]}
                /\ animationRef' = nextRafId
                /\ nextRafId' = nextRafId + 1
           ELSE /\ rafPending' = rafPending \ {r}
                /\ UNCHANGED <<animationRef, nextRafId>>
        /\ firstTickAt' = IF firstTickAt = NoTime THEN now ELSE firstTickAt
        /\ KeepSeeds
        /\ UNCHANGED <<onCompleteId, easeVars, chatVars>>
        /\ UNCHANGED style
        /\ UNCHANGED <<now, timeOrigin, showSplash, mounted, fadeOut, effectPending,
                       completeCount, fadeAt, disposedIn, disposeCalls>>

\* mutant: the completion timer is given the hold pause instead of fadeOutDuration
HoldTimerFire_SwappedDelay(t) ==
    /\ t \in timers
    /\ t.kind = "hold"
    /\ now >= t.due
    /\ fadeOut' = IF mounted THEN TRUE ELSE fadeOut
    /\ effectPending' = IF mounted /\ ~fadeOut THEN TRUE ELSE effectPending
    /\ timers' = SetTimeout(timers \ {t}, "fade", holdDuration)
    /\ nextTimerId' = nextTimerId + 1
    /\ fadeAt' = IF fadeAt = NoTime THEN now ELSE fadeAt
    /\ KeepSeeds
    /\ UNCHANGED <<onCompleteId, easeVars, chatVars>>
    /\ UNCHANGED <<style, firstTickAt>>
    /\ UNCHANGED <<now, timeOrigin, showSplash, mounted, progress, startTimeRef,
                   animationRef, rafPending, nextRafId, completeCount, fullAt,
                   disposedIn, disposeCalls>>

\* the hold timer's callback: setFadeOut(true); setTimeout(onComplete, fadeOutDuration)
HoldTimerFire(t) ==
    /\ t \in timers
    /\ t.kind = "hold"
    /\ now >= t.due
    /\ fadeOut' = IF mounted THEN TRUE ELSE fadeOut
    /\ effectPending' = IF mounted /\ ~fadeOut THEN TRUE ELSE effectPending
    /\ timers' = SetTimeout(timers \ {t}, "fade", fadeOutDuration)
    /\ nextTimerId' = nextTimerId + 1
    /\ fadeAt' = IF fadeAt = NoTime THEN now ELSE fadeAt
    /\ KeepSeeds
    /\ UNCHANGED <<onCompleteId, easeVars, chatVars>>
    /\ UNCHANGED <<style, firstTickAt>>
    /\ UNCHANGED <<now, timeOrigin, showSplash, mounted, progress, startTimeRef,
                   animationRef, rafPending, nextRafId, completeCount, fullAt,
                   disposedIn, disposeCalls>>

\* the fade timer's callback: onComplete(), which is App's handleSplashComplete
FadeTimerFire(t) ==
    /\ t \in timers
    /\ t.kind = "fade"
    /\ now >= t.due
    /\ timers' = timers \ {t}
    /\ completeCount' = completeCount + 1
    /\ showSplash' = FALSE
    /\ KeepSeeds
    /\ UNCHANGED <<onCompleteId, easeVars, chatVars>>
    /\ UNCHANGED <<style, firstTickAt>>
    /\ UNCHANGED <<now, timeOrigin, mounted, progress, fadeOut, startTimeRef,
                   animationRef, rafPending, nextRafId, nextTimerId, effectPending,
                   fullAt, fadeAt, disposedIn, disposeCalls>>

\* the host unmounts the SplashScreen (App after showSplash = false, or any
\* other disposal): React runs the effect cleanup
Unmount ==
    /\ mounted
    /\ ~effectPending
    /\ mounted' = FALSE
    /\ rafPending' = Cleanup(rafPending)
    /\ disposedIn' = Phase
    /\ KeepSeeds
    /\ UNCHANGED <<onCompleteId, easeVars, chatVars>>
    /\ UNCHANGED <<style, firstTickAt>>
    /\ UNCHANGED <<now, timeOrigin, showSplash, progress, fadeOut, startTimeRef,
                   animationRef, nextRafId, timers, nextTimerId, effectPending,
                   completeCount, fullAt, fadeAt, disposeCalls>>

\* the cleanup function called once more after the disposal
DisposeAgain ==
    /\ ~mounted
    /\ disposeCalls < MaxDisposeCalls
    /\ disposeCalls' = disposeCalls + 1
    /\ rafPending' = Cleanup(rafPending)
    /\ KeepSeeds
    /\ UNCHANGED <<onCompleteId, easeVars, chatVars>>
    /\ UNCHANGED <<style, firstTickAt>>
    /\ UNCHANGED <<now, timeOrigin, showSplash, mounted, progress, fadeOut,
                   startTimeRef, animationRef, nextRafId, timers, nextTimerId,
                   effectPending, completeCount, fullAt, fadeAt, disposedIn>>

\* time passes; React flushes a pending effect before it does
Advance(d) ==
    /\ ~effectPending
    /\ now + d <= MaxTime
    /\ now' = now + d
    /\ KeepSeeds
    /\ UNCHANGED <<onCompleteId, easeVars, chatVars>>
    /\ UNCHANGED <<style, firstTickAt>>
    /\ UNCHANGED <<timeOrigin, showSplash, mounted, progress, fadeOut, startTimeRef,
                   animationRef, rafPending, nextRafId, timers, nextTimerId,
                   effectPending, completeCount, fullAt, fadeAt, disposedIn,
                   disposeCalls>>

Next ==
    \/ RunEffect
    \/ \E r \in rafPending : Tick(r)
    \/ \E t \in timers : HoldTimerFire(t)
    \/ \E t \in timers : FadeTimerFire(t)
    \/ Unmount
    \/ DisposeAgain
    \/ \E d \in Steps : Advance(d)

Spec == Init /\ [][Next]_vars

(* ------------------------- rendering specification --------------------- *)
\* a render calls getLetterStyle(index) in the present state
Render(index, w) ==
    /\ mounted
    /\ style' = getLetterStyle(index, w)
    /\ KeepSeeds
    /\ UNCHANGED <<onCompleteId, easeVars, chatVars>>
    /\ UNCHANGED <<now, timeOrigin, showSplash, mounted, progress, fadeOut,
                   startTimeRef, animationRef, rafPending, nextRafId, timers,
                   nextTimerId, effectPending, completeCount, fullAt, fadeAt,
                   disposedIn, disposeCalls, firstTickAt>>

\* The rendering specification follows the frame loop up to VisualMaxTime,
\* before any hold timer is due, and calls getLetterStyle in the states met.
\* the returned style has been painted and is dropped
Painted ==
    /\ style' = NotRendered
    /\ KeepSeeds
    /\ UNCHANGED <<onCompleteId, easeVars, chatVars>>
    /\ UNCHANGED <<now, timeOrigin, showSplash, mounted, progress, fadeOut,
                   startTimeRef, animationRef, rafPending, nextRafId, timers,
                   nextTimerId, effectPending, completeCount, fullAt, fadeAt,
                   disposedIn, disposeCalls, firstTickAt>>

\* time passes, in the steps of the rendering specification
AdvanceVisual(d) ==
    /\ ~effectPending
    /\ now + d <= VisualMaxTime
    /\ now' = now + d
    /\ KeepSeeds
    /\ UNCHANGED <<onCompleteId, easeVars, chatVars>>
    /\ UNCHANGED <<timeOrigin, showSplash, mounted, progress, fadeOut, startTimeRef,
                   animationRef, rafPending, nextRafId, timers, nextTimerId,
                   effectPending, completeCount, fullAt, fadeAt, disposedIn,
                   disposeCalls, firstTickAt, style>>

NextVisual ==
    \/ style = NotRendered /\ RunEffect
    \/ style = NotRendered /\ \E r \in rafPending : Tick(r)
    \/ style = NotRendered /\ \E d \in VisualSteps : AdvanceVisual(d)
    \/ style = NotRendered /\ \E index \in RenderIndices, w \in Waves : Render(index, w)
    \/ style # NotRendered /\ Painted

SpecVisual == Init /\ [][NextVisual]_vars

(* ----------------------- re-rendering host specification --------------- *)
\* the host renders again and passes a new onComplete function (App creates
\* handleSplashComplete anew on each render): the dependency onComplete of the
\* effect has changed.  React runs a pending effect before it renders again.
HostRerender ==
    /\ mounted
    /\ ~effectPending
    /\ onCompleteId < MaxIdentities
    /\ onCompleteId' = onCompleteId + 1
    /\ effectPending' = TRUE
    /\ KeepSeeds
    /\ UNCHANGED <<easeVars, chatVars>>
    /\ UNCHANGED <<now, timeOrigin, showSplash, mounted, progress, fadeOut,
                   startTimeRef, animationRef, rafPending, nextRafId, timers,
                   nextTimerId, completeCount, fullAt, fadeAt, disposedIn,
                   disposeCalls, firstTickAt, style>>

\* the steps of the SplashScreen and of a host that may render again
NextHost ==
    \/ RunEffect
    \/ \E r \in rafPending : Tick(r)
    \/ \E t \in timers : HoldTimerFire(t)
    \/ \E t \in timers : FadeTimerFire(t)
    \/ Unmount
    \/ \E d \in Steps : Advance(d)
    \/ HostRerender

SpecHost == Init /\ [][NextHost]_vars

(* ------------------------ specification with fairness ------------------ *)
\* In this specification the splash stays mounted until onComplete has been
\* invoked, the browser runs the pending frame callback once per instant of
\* the clock and runs a due timer before the clock moves on, and no enabled
\* step is postponed for ever.

\* a frame request is pending and the stored progress is behind the clock
FrameDue ==
    /\ rafPending # {}
    /\ startTimeRef = NoTime \/ progress # NewProgress(now - startTimeRef)

\* a timer has reached its delay
TimerDue == \E t \in timers : now >= t.due

\* time passes once the frame callback and the timers of this instant have run
AdvanceLive(d) ==
    /\ ~effectPending
    /\ ~FrameDue
    /\ ~TimerDue
    /\ now + d <= LiveMaxTime
    /\ now' = now + d
    /\ KeepSeeds
    /\ UNCHANGED <<onCompleteId, easeVars, chatVars>>
    /\ UNCHANGED <<timeOrigin, showSplash, mounted, progress, fadeOut, startTimeRef,
                   animationRef, rafPending, nextRafId, timers, nextTimerId,
                   effectPending, completeCount, fullAt, fadeAt, disposedIn,
                   disposeCalls, firstTickAt, style>>

\* App renders without the SplashScreen once showSplash is false
HostUnmount == ~showSplash /\ Unmount

\* the frame callback of this instant
FrameTick == FrameDue /\ \E r \in rafPending : Tick(r)

NextLive ==
    \/ RunEffect
    \/ FrameTick
    \/ \E t \in timers : HoldTimerFire(t)
    \/ \E t \in timers : FadeTimerFire(t)
    \/ HostUnmount
    \/ \E d \in LiveSteps : AdvanceLive(d)

Fairness ==
    /\ WF_vars(RunEffect)
    /\ WF_vars(FrameTick)
    /\ WF_vars(\E t \in timers : HoldTimerFire(t))
    /\ WF_vars(\E t \in timers : FadeTimerFire(t))
    /\ WF_vars(HostUnmount)
    /\ WF_vars(\E d \in LiveSteps : AdvanceLive(d))

SpecLive == Init /\ [][NextLive]_vars /\ Fairness

(* ---------------------- easing functions specification ----------------- *)
\* the arguments in [0, 1] the easing functions are evaluated at
EaseGrid == {Rat(k, EaseSteps) : k \in 0..EaseSteps}

\* two arguments a <= b are drawn
InitEase ==
    /\ SplashInit
    /\ ChatIdle
    /\ easeArgs \in {<<a, b>> \in EaseGrid \X EaseGrid : RLe(a, b)}
    /\ easeOut = NoResult

\* both easing functions are called with both arguments
ApplyEase ==
    /\ easeOut = NoResult
    /\ easeOut' = [evaluated |-> TRUE,
                   quartA |-> easeOutQuart(easeArgs[1]),
                   quartB |-> easeOutQuart(easeArgs[2]),
                   cubicA |-> easeInOutCubic(easeArgs[1]),
                   cubicB |-> easeInOutCubic(easeArgs[2])]
    /\ UNCHANGED <<easeArgs, splashVars, chatVars>>

NextEase == ApplyEase

SpecEase == InitEase /\ [][NextEase]_vars

(* --------------------------- chat page specification ------------------- *)
\* The chat page (Index with its ChatHistorySidebar) is mounted by App once the
\* splash has completed.  A handler with an await is two steps: the part up
\* to the fetch, and the part that runs when the fetch settles.

\* the state the splash is left in by the run: frames at 400 ms and 4900 ms,
\* hold timer at 6100 ms, completion timer at 7300 ms, unmounted by App
SplashDone ==
    /\ now = 7300
    /\ timeOrigin = 0
    /\ showSplash = FALSE
    /\ mounted = FALSE
    /\ progress = totalDuration
    /\ fadeOut = TRUE
    /\ startTimeRef = 400
    /\ animationRef = 3
    /\ rafPending = {}
    /\ nextRafId = 4
    /\ timers = {}
    /\ nextTimerId = 3
    /\ effectPending = FALSE
    /\ completeCount = 1
    /\ fullAt = 4900
    /\ fadeAt = 6100
    /\ disposedIn = "Completed"
    /\ disposeCalls = 0
    /\ firstTickAt = 400
    /\ letterData = [index \in 0..(LetterCount - 1) |->
                        MakeSeed(CHOOSE c \in SeedDraws : c.startX = 300, index)]
    /\ style = NotRendered
    /\ onCompleteId = 1

\* a fetch call under way: its number, the handler that made it, the session
\* the request names, the sessionId its handler's closure holds, and (history)
\* the chat that was shown when it was made
NewCall(kind, target, sid, view) ==
    [id |-> nextCallId, kind |-> kind, target |-> target, sid |-> sid, view |-> view]

\* the history the backend holds for a session of an earlier visit
EarlierHistory ==
    <<[role |-> "user", call |-> 0, text |-> "query"],
      [role |-> "assistant", call |-> 0, text |-> "reply"]>>

\* Index and ChatHistorySidebar just mounted: the sidebar's effect has called
\* fetchSessions(); the backend holds one session of an earlier visit
InitChat ==
    /\ SplashDone
    /\ EaseIdle
    /\ messages = <<WELCOME_MESSAGE>>
    /\ isProcessing = FALSE
    /\ currentTool = "undefined"
    /\ sessionId = NoSession
    /\ calls = {[id |-> 1, kind |-> "list", target |-> NoSession, sid |-> NoSession,
                 view |-> FirstChat]}
    /\ nextCallId = 2
    /\ backend = [s \in 1..MaxSessions |->
                     IF s = 1 THEN [state |-> "live", history |-> EarlierHistory]
                     ELSE [state |-> "free", history |-> <<>>]]
    /\ sessions = {}
    /\ shown = FirstChat
    /\ lastCall = [id |-> 0, kind |-> "none", ok |-> FALSE, notified |-> FALSE]

\* handleSelectSession: one history entry as a Message
FormatMessage(m) ==
    [type |-> IF m.role = "assistant" THEN "ai" ELSE "user",
     call |-> m.call, text |-> m.text]

\* historyData.map(...)
FormatHistory(h) == [i \in 1..Len(h) |-> FormatMessage(h[i])]

\* the ways the fetch of handleSendMessage settles: response.ok with a result,
\* a response that is not ok, a rejected fetch, and response.ok with a body
\* that has no data
SendOutcomes == {"ok", "http_error", "network_error", "malformed"}

\* aiResponse on success, errorMessage in the catch block
ReplyMessage(c, outcome) ==
    [type |-> "ai", call |-> c.id,
     text |-> IF outcome = "ok" THEN "reply" ELSE "apology"]

\* mutant: setIsProcessing(false) stands at the end of the try block
ProcessingAfter_OnlyOnSuccess(outcome) == outcome # "ok"

\* finally { setIsProcessing(false) }
ProcessingAfter(outcome) == FALSE

\* the session the backend files a request under: the one it names or, for
\* none, the first id never used
FiledUnder(sid) ==
    IF sid # NoSession THEN sid
    ELSE CHOOSE s \in 1..MaxSessions :
            /\ backend[s].state = "free"
            /\ \A u \in 1..(s - 1) : backend[u].state # "free"

\* the backend can handle a request that names the session sid
CanFile(sid) ==
    IF sid # NoSession THEN backend[sid].state = "live"
    ELSE \E s \in 1..MaxSessions : backend[s].state = "free"

\* handleNewChat
NewChat ==
    /\ messages' = <<WELCOME_MESSAGE>>
    /\ sessionId' = NoSession
    /\ shown' = [session |-> NoSession, since |-> nextCallId]
    /\ UNCHANGED <<isProcessing, currentTool, calls, nextCallId, backend, sessions,
                   lastCall>>
    /\ UNCHANGED <<splashVars, easeVars>>

\* handleSendMessage up to its await; InputArea offers no way to send while
\* isProcessing
Send ==
    /\ ~isProcessing
    /\ nextCallId <= MaxCalls
    /\ messages' = Append(messages, [type |-> "user", call |-> nextCallId,
                                      text |-> "query"])
    /\ isProcessing' = TRUE
    /\ currentTool' = "router"
    /\ calls' = calls \cup {NewCall("send", NoSession, sessionId, shown)}
    /\ nextCallId' = nextCallId + 1
    /\ UNCHANGED <<sessionId, backend, sessions, shown, lastCall>>
    /\ UNCHANGED <<splashVars, easeVars>>

\* handleSendMessage from the settling of its fetch: try, catch and finally
SendDone(c, outcome) ==
    LET handled == outcome \in {"ok", "malformed"}
        filed == FiledUnder(c.sid)
        adopts == outcome = "ok" /\ c.sid = NoSession
    IN  /\ c \in calls
        /\ c.kind = "send"
        /\ handled => CanFile(c.sid)
        /\ backend' =
              IF handled
              THEN [backend EXCEPT ![filed] =
                      [state |-> "live",
                       history |-> backend[filed].history \o
                           <<[role |-> "user", call |-> c.id, text |-> "query"],
                             [role |-> "assistant", call |-> c.id, text |-> "reply"]>>]]
              ELSE backend
        /\ messages' = Append(messages, ReplyMessage(c, outcome))
        /\ sessionId' = IF adopts THEN filed ELSE sessionId
        /\ isProcessing' = ProcessingAfter(outcome)
        /\ currentTool' = "undefined"
        /\ calls' = calls \ {c}
        /\ shown' = IF adopts /\ shown = c.view
                     THEN [session |-> filed, since |-> 0] ELSE shown
        /\ lastCall' = [id |-> c.id, kind |-> "send", ok |-> outcome = "ok",
                        notified |-> FALSE]
        /\ UNCHANGED <<nextCallId, sessions>>
        /\ UNCHANGED <<splashVars, easeVars>>

\* a click on a row of the sidebar: handleSelectSession up to its await
SelectClick(s) ==
    /\ s \in sessions
    /\ nextCallId <= MaxCalls
    /\ calls' = calls \cup {NewCall("select", s, NoSession, FirstChat)}
    /\ nextCallId' = nextCallId + 1
    /\ UNCHANGED <<messages, isProcessing, currentTool, sessionId, backend, sessions,
                   shown, lastCall>>
    /\ UNCHANGED <<splashVars, easeVars>>

\* handleSelectSession from the settling of its fetch
SelectDone(c, ok) ==
    /\ c \in calls
    /\ c.kind = "select"
    /\ ok => backend[c.target].state = "live"
    /\ IF ok
       THEN /\ messages' = FormatHistory(backend[c.target].history)
            /\ sessionId' = c.target
            /\ shown' = [session |-> c.target, since |-> 0]
       ELSE UNCHANGED <<messages, sessionId, shown>>
    /\ calls' = calls \ {c}
    /\ lastCall' = [id |-> c.id, kind |-> "select", ok |-> ok, notified |-> FALSE]
    /\ UNCHANGED <<isProcessing, currentTool, nextCallId, backend, sessions>>
    /\ UNCHANGED <<splashVars, easeVars>>

\* a click on the bin of a row: handleDelete up to its await; the
\* onDeleteSession it will call is the handleDeleteSession of this render,
\* whose closure holds the present sessionId
DeleteClick(s) ==
    /\ s \in sessions
    /\ nextCallId <= MaxCalls
    /\ calls' = calls \cup {NewCall("delete", s, sessionId, FirstChat)}
    /\ nextCallId' = nextCallId + 1
    /\ UNCHANGED <<messages, isProcessing, currentTool, sessionId, backend, sessions,
                   shown, lastCall>>
    /\ UNCHANGED <<splashVars, easeVars>>

\* handleDelete from the settling of its fetch: on response.ok
\* onDeleteSession(sessionId), which is handleDeleteSession, and fetchSessions()
DeleteDone(c, ok) ==
    /\ c \in calls
    /\ c.kind = "delete"
    /\ ok => backend[c.target].state = "live"
    /\ IF ok
       THEN /\ backend' = [backend EXCEPT ![c.target] =
                              [state |-> "deleted", history |-> <<>>]]
            /\ IF c.sid = c.target
               THEN /\ messages' = <<WELCOME_MESSAGE>>
                    /\ sessionId' = NoSession
                    /\ shown' = [session |-> NoSession, since |-> nextCallId]
               ELSE UNCHANGED <<messages, sessionId, shown>>
            /\ calls' = (calls \ {c}) \cup {NewCall("list", NoSession, NoSession, FirstChat)}
            /\ nextCallId' = nextCallId + 1
       ELSE /\ calls' = calls \ {c}
            /\ UNCHANGED <<messages, sessionId, shown, backend, nextCallId>>
    /\ lastCall' = [id |-> c.id, kind |-> "delete", ok |-> ok, notified |-> ok]
    /\ UNCHANGED <<isProcessing, currentTool, sessions>>
    /\ UNCHANGED <<splashVars, easeVars>>

\* setInterval(fetchSessions, 5000): fetchSessions up to its await
Refresh ==
    /\ nextCallId <= MaxCalls
    /\ calls' = calls \cup {NewCall("list", NoSession, NoSession, FirstChat)}
    /\ nextCallId' = nextCallId + 1
    /\ UNCHANGED <<messages, isProcessing, currentTool, sessionId, backend, sessions,
                   shown, lastCall>>
    /\ UNCHANGED <<splashVars, easeVars>>

\* fetchSessions from the settling of its fetch
ListDone(c, ok) ==
    /\ c \in calls
    /\ c.kind = "list"
    /\ sessions' = IF ok THEN {s \in 1..MaxSessions : backend[s].state = "live"}
                    ELSE sessions
    /\ calls' = calls \ {c}
    /\ lastCall' = [id |-> c.id, kind |-> "list", ok |-> ok, notified |-> FALSE]
    /\ UNCHANGED <<messages, isProcessing, currentTool, sessionId, nextCallId,
                   backend, shown>>
    /\ UNCHANGED <<splashVars, easeVars>>

NextChat ==
    \/ NewChat
    \/ Send
    \/ \E c \in calls, outcome \in SendOutcomes : SendDone(c, outcome)
    \/ \E s \in 1..MaxSessions : SelectClick(s)
    \/ \E c \in calls, ok \in BOOLEAN : SelectDone(c, ok)
    \/ \E s \in 1..MaxSessions : DeleteClick(s)
    \/ \E c \in calls, ok \in BOOLEAN : DeleteDone(c, ok)
    \/ Refresh
    \/ \E c \in calls, ok \in BOOLEAN : ListDone(c, ok)

SpecChat == InitChat /\ [][NextChat]_vars

(* ------------------------------- claims -------------------------------- *)

\* C1: across a run in which the splash stays mounted, onComplete is invoked
\* exactly once: never twice, never before fadeOutDuration has passed since
\* fadeOut was set, and once the fade timer has run it has been invoked.
C1_ExactlyOnce ==
    /\ completeCount <= 1
    /\ completeCount > 0 => fadeAt # NoTime /\ now >= fadeAt + fadeOutDuration
    /\ (mounted /\ fadeOut /\ timers = {}) => completeCount = 1

C1_Witness == mounted /\ fadeOut /\ timers = {} /\ completeCount = 1

\* C2: after a disposal during HoldingComplete or FadingOut, fadeOut is not
\* set any more and onComplete is never invoked.
C2_NoCallbackAfterDispose ==
    /\ disposedIn = "HoldingComplete" => ~fadeOut
    /\ disposedIn \in {"HoldingComplete", "FadingOut"} => completeCount = 0

\* C3: after a disposal during Entering no frame request and no timer is
\* pending, and no later step changes progress, fadeOut, startTimeRef or the
\* number of frame requests, nor invokes onComplete.
C3_DisposeEntering ==
    [][disposedIn' = "Entering" =>
          /\ rafPending' = {}
          /\ timers' = {}
          /\ completeCount' = 0
          /\ disposedIn = "Entering" =>
                UNCHANGED <<progress, fadeOut, startTimeRef, nextRafId, nextTimerId>>]_vars

C3_Witness ==
    /\ disposedIn = "Entering"
    /\ progress > 0
    /\ now >= startTimeRef + totalDuration + holdDuration + fadeOutDuration

\* C4: no step ever lowers progress; in particular a later tick during
\* Entering never sets a smaller progress than an earlier one.
C4_Monotonic == [][progress' >= progress]_vars

C4_Witness == Phase = "Entering" /\ progress > 400 /\ nextRafId >= 4

\* C5: the phase of a mounted session starts as Entering and only moves
\* Entering -> HoldingComplete -> FadingOut -> Completed, one phase at a time;
\* the only other change is the host's disposal.
PhaseSteps ==
    {<<"Entering", "HoldingComplete">>, <<"HoldingComplete", "FadingOut">>,
     <<"FadingOut", "Completed">>}

C5_PhaseOrder ==
    /\ Phase = "Entering"
    /\ [][\/ Phase' = Phase
          \/ <<Phase, Phase'>> \in PhaseSteps
          \/ Phase # "Disposed" /\ Phase' = "Disposed"]_vars

C5_Witness == Phase = "Completed" /\ now > fadeAt + fadeOutDuration

\* C6: after the disposal no frame request is pending, and a further call of
\* the cleanup, before or after completion, changes nothing.
C6_DisposeIdempotent ==
    [][/\ ~mounted' => rafPending' = {}
       /\ disposeCalls' # disposeCalls =>
             UNCHANGED <<now, timeOrigin, showSplash, mounted, progress, fadeOut,
                         startTimeRef, animationRef, rafPending, nextRafId, timers,
                         nextTimerId, effectPending, completeCount>>]_vars

C6_Witness == disposeCalls >= 2 /\ disposedIn = "Completed"

\* C7: once onComplete has been invoked no further frame is requested.
C7_NoFrameAfterComplete == [][completeCount > 0 => nextRafId' = nextRafId]_vars

\* C8 (as stated): fadeOut is set exactly holdDuration after the instant at
\* which progress reached 1.0.
C8_HoldExactly ==
    [][(~fadeOut /\ fadeOut') => now' = fullAt + holdDuration]_vars

\* C8 (amended): fadeOut is set only after progress reached 1.0, and no
\* earlier than holdDuration after that instant; the timer may run later.
C8_HoldAtLeast ==
    [][(~fadeOut /\ fadeOut') =>
          /\ progress = totalDuration
          /\ fullAt # NoTime
          /\ now' >= fullAt + holdDuration]_vars

C8_Witness == mounted /\ fadeOut /\ fadeAt > fullAt + holdDuration

\* C9: onComplete is invoked by the timer set at the start of the fade, no
\* earlier than fadeOutDuration after it, hence no earlier than
\* totalDuration + holdDuration + fadeOutDuration after startTime.
C9_CompleteAfterFade ==
    [][completeCount' > completeCount =>
          /\ fadeAt # NoTime
          /\ now' >= fadeAt + fadeOutDuration
          /\ now' - startTimeRef >= totalDuration + holdDuration + fadeOutDuration]_vars

C9_Witness == completeCount = 1 /\ mounted /\ now = fadeAt + fadeOutDuration

\* C10: during FadingOut the fade multiplier equals
\* max(0, 1 - elapsedSinceFadeStart/fadeDuration), measured from the instant
\* fadeOut was set (numerators over fadeOutDuration).
C10_FadeFromActualStart ==
    (mounted /\ fadeOut) =>
        /\ FadeFactor = Max(0, fadeOutDuration - (now - fadeAt))
        /\ OverallOpacity = FadeFactor

\* C11 (as stated): 6500 ms after the first tick, on every schedule of frames
\* and timers, onComplete has fired exactly once and the composition opacity is
\* 0.  Stated for the instants at which a frame has already shown progress 1,
\* no timer is due and no effect is pending.
C11_DoneAt6500 ==
    (/\ mounted
     /\ firstTickAt # NoTime
     /\ progress = totalDuration
     /\ now - firstTickAt = totalDuration + holdDuration + fadeOutDuration
     /\ ~effectPending
     /\ \A t \in timers : t.due > now) =>
        completeCount = 1 /\ OverallOpacity = 0

\* C11 (amended): onComplete never fires earlier than 6500 ms after the first
\* tick; once it has fired it has fired exactly once and the composition
\* opacity is 0; this is the case at 6500 ms on the schedule where a frame
\* comes 4500 ms after the first tick and both timers run on time.
C11_DoneAfterFullRun ==
    /\ (mounted /\ completeCount > 0) =>
          /\ completeCount = 1
          /\ OverallOpacity = 0
          /\ now - firstTickAt >= totalDuration + holdDuration + fadeOutDuration
    /\ (/\ mounted
        /\ firstTickAt # NoTime
        /\ fullAt = firstTickAt + totalDuration
        /\ fadeAt = fullAt + holdDuration
        /\ now = fadeAt + fadeOutDuration
        /\ \A t \in timers : t.due > now) =>
          completeCount = 1 /\ OverallOpacity = 0

C11_Witness ==
    /\ mounted
    /\ completeCount = 1
    /\ now - firstTickAt = totalDuration + holdDuration + fadeOutDuration

\* C12: the stored progress always lies in [0, 1].
C12_ProgressInRange ==
    /\ progress \in 0..totalDuration
    /\ RLe(RInt(0), ProgressValue) /\ RLe(ProgressValue, RInt(1))

C12_Witness ==
    progress = totalDuration /\ now - startTimeRef > totalDuration

\* C13: a style computed at progress 1 has the final position of its seed,
\* rotation 0 and scale 1, for every letter and every seed.
C13_Convergence ==
    (style.rendered /\ style.error = "none" /\ style.t = RInt(1)) =>
        /\ style.x = RInt(letterData[style.index].finalX)
        /\ style.y = RInt(letterData[style.index].finalY)
        /\ style.rotation = RInt(0)
        /\ style.scale = RInt(1)

C13_Witness ==
    style.rendered /\ style.error = "none" /\ style.t = RInt(1) /\ style.index = 6

\* C14: in every phase and at every instant the opacity of a letter lies in
\* [0, 1].
C14_OpacityInRange ==
    mounted => RLe(RInt(0), LetterOpacity) /\ RLe(LetterOpacity, RInt(1))

C14_Witness ==
    /\ mounted
    /\ fadeOut
    /\ RLt(RInt(0), LetterOpacity)
    /\ RLt(LetterOpacity, RInt(1))

\* C16: the seeds drawn when the session is created are never changed by any
\* step: no tick, effect run, timer callback, render or disposal.
C16_SeedsStable == [][letterData' = letterData]_vars

C16_Witness ==
    /\ completeCount = 1
    /\ nextRafId >= 5
    /\ letterData \in LetterDataChoices
    /\ letterData[6].finalX = 6 * Spacing

\* C17: once onComplete has been invoked, progress, startTimeRef and fadeOut
\* never change again and the number of invocations stays at one.
C17_CompletedImmutable ==
    [][completeCount > 0 =>
          /\ completeCount = 1
          /\ UNCHANGED <<progress, startTimeRef, fadeOut, completeCount>>]_vars

C17_Witness ==
    /\ mounted
    /\ completeCount = 1
    /\ rafPending # {}
    /\ now >= fadeAt + fadeOutDuration + 400

\* C18: the glitch offsets of a style are 0 whenever progress >= 0.4, and for
\* progress < 0.4 they are the wave times glitchOffset (times 0.5 for y) times
\* the decay 1 - t/0.4.
C18_Decay(t) == RSub(RInt(1), RDiv(t, Rat(2, 5)))

C18_Glitch ==
    (style.rendered /\ style.error = "none") =>
        IF RLe(Rat(2, 5), style.t)
        THEN style.glitchX = RInt(0) /\ style.glitchY = RInt(0)
        ELSE /\ style.glitchX =
                  RMul(RMul(style.w.sinGlitch, RInt(style.data.glitchOffset)),
                       C18_Decay(style.t))
             /\ style.glitchY =
                  RMul(RMul(RMul(style.w.cosGlitch, RInt(style.data.glitchOffset)),
                            Rat(1, 2)),
                       C18_Decay(style.t))

C18_Witness ==
    /\ style.rendered
    /\ style.error = "none"
    /\ style.t = Rat(1, 2)
    /\ style.glitchX = RInt(0)

\* C19: the glow intensity of a style is 0 for t <= 0.8, 5t - 4 above, hence
\* 0.5 at t = 0.9 and 1 at t = 1.
C19_Glow ==
    (style.rendered /\ style.error = "none") =>
        /\ RLe(style.t, Rat(4, 5)) => style.glowIntensity = RInt(0)
        /\ RLe(Rat(4, 5), style.t) =>
              style.glowIntensity = RSub(RMul(RInt(5), style.t), RInt(4))
        /\ style.t = Rat(9, 10) => style.glowIntensity = Rat(1, 2)
        /\ style.t = RInt(1) => style.glowIntensity = RInt(1)

C19_Witness ==
    /\ style.rendered
    /\ style.error = "none"
    /\ style.t = Rat(9, 10)
    /\ style.glowIntensity = Rat(1, 2)

\* C20: getLetterStyle called with an index outside the letters ends in an
\* error and returns no visual state.
C20_IndexOutOfRange ==
    (style.rendered /\ style.index \notin 0..(LetterCount - 1)) =>
        style.error = "TypeError" /\ "x" \notin DOMAIN style

C20_Witness ==
    style.rendered /\ style.index = LetterCount /\ style.error = "TypeError"

\* C21: both easing functions map [0, 1] into [0, 1], are nondecreasing on
\* [0, 1], and have f(0) = 0 and f(1) = 1.
C21_Easing ==
    easeOut.evaluated =>
        /\ \A v \in {easeOut.quartA, easeOut.quartB, easeOut.cubicA, easeOut.cubicB} :
              RLe(RInt(0), v) /\ RLe(v, RInt(1))
        /\ RLe(easeOut.quartA, easeOut.quartB)
        /\ RLe(easeOut.cubicA, easeOut.cubicB)
        /\ easeArgs[1] = RInt(0) =>
              easeOut.quartA = RInt(0) /\ easeOut.cubicA = RInt(0)
        /\ easeArgs[2] = RInt(1) =>
              easeOut.quartB = RInt(1) /\ easeOut.cubicB = RInt(1)

C21_Witness ==
    /\ easeOut.evaluated
    /\ easeArgs = <<Rat(9, 20), Rat(1, 2)>>
    /\ easeOut.cubicB = Rat(1, 2)
    /\ RLt(easeOut.cubicA, easeOut.cubicB)

\* C22: once a tick has run, startTimeRef holds the timestamp of the first
\* tick, whatever that timestamp was, through every later step.
C22_StartOnFirstTick ==
    firstTickAt # NoTime => startTimeRef = firstTickAt

\* C23: progress, fadeOut and startTimeRef are changed by ticks only: every
\* step that changes one of them is a run of animate.
C23_WrittenInTickOnly ==
    [][(progress' # progress \/ fadeOut' # fadeOut \/ startTimeRef' # startTimeRef) =>
          \E r \in rafPending : Tick(r)]_vars

\* C24: the hold timer is set at most once per mounted session, also when
\* the effect runs again during the hold pause; hence there is never more
\* than one completion timer and onComplete is invoked at most once.
C24_HoldOnce ==
    [][/\ (\E t \in timers' \ timers : t.kind = "hold") => nextTimerId = 1
       /\ Cardinality({t \in timers' : t.kind = "fade"}) <= 1
       /\ completeCount' <= 1]_vars

\* C26: at every moment at most one frame request is pending, and it is the
\* one whose id animationRef holds, across ticks, effect re-runs for fadeOut
\* or for a new onComplete, and the cleanup.
C26_OneFramePending ==
    /\ Cardinality(rafPending) <= 1
    /\ \A r \in rafPending : r.id = animationRef

C26_Witness ==
    /\ mounted
    /\ fadeOut
    /\ onCompleteId = 2
    /\ ~effectPending
    /\ nextRafId >= 5
    /\ \E r \in rafPending : r.id = animationRef /\ r.fo

\* C27: the tick that brings progress to 1 while fadeOut is false requests no
\* frame and no step requests one during the hold pause; the next request is
\* made by the effect run that follows the setting of fadeOut; and while
\* fadeOut is set every tick requests another frame.
C27_LoopPausesInHold ==
    [][/\ (progress' = totalDuration /\ ~fadeOut') => nextRafId' = nextRafId
       /\ (progress = totalDuration /\ rafPending = {} /\ nextRafId' # nextRafId) =>
             fadeOut /\ effectPending /\ ~effectPending'
       /\ (fadeOut /\ \E r \in rafPending : Tick(r)) =>
             nextRafId' = nextRafId + 1 /\ rafPending' # {}]_vars

C27_Witness ==
    /\ mounted
    /\ fadeOut
    /\ fadeAt >= fullAt + holdDuration
    /\ ~effectPending
    /\ nextRafId = MaxFrames + 1
    /\ rafPending # {}

\* C25: while the splash stays mounted and frame callbacks and timers keep
\* being run, every run eventually sets fadeOut and eventually invokes
\* onComplete, after which showSplash is false and the host unmounts the
\* splash.
C25_EventuallyComplete ==
    /\ <>fadeOut
    /\ <>(completeCount > 0)
    /\ (completeCount > 0) ~> (~showSplash /\ ~mounted)

C25_Witness ==
    /\ ~mounted
    /\ ~showSplash
    /\ completeCount = 1
    /\ disposedIn = "Completed"
    /\ now >= firstTickAt + totalDuration + holdDuration + fadeOutDuration

\* C28: for every interleaving of sends with session selections and new
\* chats, the reply or apology of a request is appended while the chat it was
\* sent from is still the one shown, and after it sessionId is the session of
\* the transcript shown.
C28_ReplyInOwnTranscript ==
    [][\A c \in calls \ calls' :
          c.kind = "send" => shown = c.view /\ shown'.session = sessionId']_vars

\* C29: handleSendMessage appends the user message before its fetch; when the
\* fetch settles it appends exactly one AI message, the reply on success and
\* the apology on every failure, and leaves isProcessing false and
\* currentTool undefined; on failure it leaves sessionId unchanged.
C29_SendSettles ==
    [][/\ \A c \in calls' \ calls :
             c.kind = "send" =>
                /\ messages' = Append(messages, [type |-> "user", call |-> c.id,
                                                  text |-> "query"])
                /\ \A i \in 1..Len(messages) : messages[i].call # c.id
       /\ \A c \in calls \ calls' :
             c.kind = "send" =>
                /\ Len(messages') = Len(messages) + 1
                /\ \A i \in 1..Len(messages) : messages'[i] = messages[i]
                /\ messages'[Len(messages')] =
                      [type |-> "ai", call |-> c.id,
                       text |-> IF lastCall'.ok THEN "reply" ELSE "apology"]
                /\ ~isProcessing'
                /\ currentTool' = "undefined"
                /\ ~lastCall'.ok => sessionId' = sessionId]_vars

C29_Witness ==
    /\ lastCall.kind = "send"
    /\ ~lastCall.ok
    /\ ~isProcessing
    /\ currentTool = "undefined"
    /\ sessionId = NoSession
    /\ backend[2].state = "live"
    /\ Len(messages) = 3
    /\ messages[2] = [type |-> "user", call |-> lastCall.id, text |-> "query"]
    /\ messages[3] = [type |-> "ai", call |-> lastCall.id, text |-> "apology"]

\* C30: onDeleteSession is called only when the DELETE returned ok; when the
\* deleted session is the active one the transcript becomes the single
\* welcome message and sessionId null; when it is another session, or the
\* delete failed, messages and sessionId stay as they are.
C30_DeleteResets ==
    [][\A c \in calls \ calls' :
          c.kind = "delete" =>
             /\ lastCall'.notified => lastCall'.ok
             /\ IF lastCall'.ok /\ sessionId = c.target
                THEN messages' = <<WELCOME_MESSAGE>> /\ sessionId' = NoSession
                ELSE UNCHANGED <<messages, sessionId>>]_vars
====
